---- MODULE Spec2Model ----
(***************************************************************************)
(* Model of the Detector class of DMNC_Detector.py: the entrance sampler   *)
(* (random_entrance), the capture walk (gen_capture_locs), the weighted    *)
(* draw (key_val_by_weight) and the decay cascade (photon_generation).     *)
(*                                                                         *)
(* Real quantities are held in exact arithmetic on a grid.  Lengths and    *)
(* coordinates drawn by rand.uniform are integers; the trigonometric       *)
(* values are the 3-4-5 rationals in fifths, so a direction component      *)
(* (a product of two of them) is a number of 25ths, and the position       *)
(* x, y, z is held in 25ths as well (Scale).  Floating-point rounding is   *)
(* not modelled.                                                           *)
(***************************************************************************)
EXTENDS Integers, Sequences, FiniteSets, TLC

\* ------------------------------------------------------------- bounds
\* A valid side is 2*h for h in 1..MaxHalf (even, so that side/2 is exact).
MaxHalf == 1
\* The free-path draws: -ln(1 - rand_num) is 100*k cm-units, k in 0..MaxDist.
MaxDist == 2
\* photon_generation is called at most MaxCalls times on one Detector.
MaxCalls == 2

\* -------------------------------------------------- program constants
\* for i in range(100) of gen_capture_locs
WalkCap == 100
\* for i in range(1000) of photon_generation
CascadeCap == 1000
\* cap_dist *= 1e-2
CmPerM == 100

\* positions and direction components are held in 25ths
Scale == 5 * 5

\* --------------------------------------------------------- arithmetic
\* rand.uniform(a, b) = a + (b - a) * random(): a grid value between a and b,
\* whichever is the larger.
Uniform(a, b) == IF a <= b THEN a..b ELSE b..a

\* phi is an index into the increasing table of angles of [0, 2 pi] whose
\* cosine and sine are rational: <<5 cos(phi), 5 sin(phi)>>.
Angles ==
  << <<5, 0>>, <<4, 3>>, <<3, 4>>, <<0, 5>>, <<-3, 4>>, <<-4, 3>>, <<-5, 0>>,
     <<-4, -3>>, <<-3, -4>>, <<0, -5>>, <<3, -4>>, <<4, -3>>, <<5, 0>> >>
PhiAll == DOMAIN Angles
np_cos(phi) == Angles[phi][1]
np_sin(phi) == Angles[phi][2]
\* np.pi / 2, np.pi and 3 * np.pi / 2 in the table
HalfPi == CHOOSE k \in PhiAll : Angles[k] = <<0, 5>>
Pi == CHOOSE k \in PhiAll : Angles[k] = <<-5, 0>>
ThreeHalfPi == CHOOSE k \in PhiAll : Angles[k] = <<0, -5>>

\* cos (of theta) in fifths, drawn by rand.uniform(-1, 1)
CosAll == {-5, -4, -3, 0, 3, 4, 5}
\* sin = (1 - cos**2)**(0.5), in fifths
SinOf(cos) == CHOOSE s \in 0..5 : s * s = 5 * 5 - cos * cos

VARIABLES
  length, width, height,      \* constructor arguments (metres)
  num_density, xsec_cm,       \* constructor arguments
  xsec_dict,                  \* capture weights: sequence of <<state, weight>>
  x, y, z,                    \* position, in 25ths
  ux, uy, uz,                 \* direction, in 25ths
  capture_locs,               \* dict location -> state: sequence of <<loc, state>>
  photon_energy_list,         \* list of emitted energies
  rates,                      \* the external rate calculator's table (Gamma_tot_B)
  pc,                         \* where the driver / the running method is
  i,                          \* position of the running for-loop's range iterator
  loc,                        \* index of the location photon_generation works on
  q_state,                    \* photon_generation's locals <<n, l, m>>
  diag,                       \* 'ATTENTION: Did not finish decay' printed for this cascade
  finite,                     \* FALSE once the position holds inf / nan
  kv,                         \* the last call of key_val_by_weight
  face,                       \* the branch random_entrance took last
  last,                       \* the method that ran last
  calls,                      \* number of photon_generation calls so far
  pel0                        \* photon_energy_list when photon_generation was called

vars == <<length, width, height, num_density, xsec_cm, xsec_dict, x, y, z,
          ux, uy, uz, capture_locs, photon_energy_list, rates, pc, i, loc,
          q_state, diag, finite, kv, face, last, calls, pel0>>

config == <<length, width, height, num_density, xsec_cm, xsec_dict, rates>>
position == <<x, y, z>>
direction == <<ux, uy, uz>>
cascade == <<loc, q_state, diag, calls, pel0>>

\* ----------------------------------------------------- Detector.__init__
x_min == (-length) \div 2
x_max == length \div 2
y_min == (-width) \div 2
y_max == width \div 2
z_min == (-height) \div 2
z_max == height \div 2
area_x == height * width
area_y == height * length
area_z == width * length
area_tot == area_x + area_y + area_z

\* The int 0 that key_val_by_weight's curr_key and curr_val start as: not a
\* state, and not subscriptable.
DefaultKey == <<0>>
NoCall ==
  [called |-> FALSE, by |-> "none", dictionary |-> <<>>, weight |-> 0,
   key |-> DefaultKey, val |-> 0, exhausted |-> FALSE]

\* The state before the constructor has run: nothing is set.
Init ==
  /\ length = 0 /\ width = 0 /\ height = 0
  /\ num_density = 0 /\ xsec_cm = 0
  /\ xsec_dict = <<>>
  /\ x = 0 /\ y = 0 /\ z = 0
  /\ ux = 0 /\ uy = 0 /\ uz = 0
  /\ capture_locs = <<>>
  /\ photon_energy_list = <<>>
  /\ rates = "none"
  /\ pc = "new"
  /\ i = 0 /\ loc = 0 /\ q_state = <<>>
  /\ diag = FALSE /\ finite = TRUE
  /\ kv = NoCall
  /\ face = "none" /\ last = "none" /\ calls = 0 /\ pel0 = <<>>

\* Detector(length, width, height, num_density, cross_section_cm, cross_sec_dict):
\* every argument is stored as given.  The rate calculator's table is fixed
\* with it.
Construct(Dims, Dens, Xsecs, Setups) ==
  /\ pc = "new"
  /\ \E le \in Dims, wi \in Dims, he \in Dims, nd \in Dens, xs \in Xsecs,
        su \in Setups :
       /\ length' = le /\ width' = wi /\ height' = he
       /\ num_density' = nd /\ xsec_cm' = xs
       /\ xsec_dict' = su.xsec_dict
       /\ rates' = su.rates
  /\ x' = 0 /\ y' = 0 /\ z' = 0
  /\ ux' = 0 /\ uy' = 0 /\ uz' = 0
  /\ capture_locs' = <<>>
  /\ photon_energy_list' = <<>>
  /\ pc' = "idle"
  /\ last' = "__init__"
  /\ UNCHANGED <<i, cascade, finite, kv, face>>

\* ------------------------------------------------- Detector.random_entrance
\* random_entrance with the last branch closed by < instead of <=.
EntrancePoint_StrictTotal(enter_face, phi, cos, r1, r2) ==
  IF enter_face < area_x
  THEN IF phi > HalfPi /\ phi < ThreeHalfPi
       THEN [face |-> "front", p |-> <<Scale * x_max, Scale * r1, Scale * r2>>]
       ELSE [face |-> "back", p |-> <<Scale * x_min, Scale * r1, Scale * r2>>]
  ELSE IF enter_face < area_x + area_y
  THEN IF phi > Pi
       THEN [face |-> "right", p |-> <<Scale * r1, Scale * y_max, Scale * r2>>]
       ELSE [face |-> "left", p |-> <<Scale * r1, Scale * y_min, Scale * r2>>]
  ELSE IF enter_face < area_tot
  THEN IF cos < 0
       THEN [face |-> "top", p |-> <<Scale * r1, Scale * r2, Scale * z_max>>]
       ELSE [face |-> "bottom", p |-> <<Scale * r1, Scale * r2, Scale * z_min>>]
  ELSE [face |-> "none", p |-> <<x, y, z>>]

\* random_entrance with the face of a pair picked as random_face picks it, by
\* a draw that does not look at the direction (here the parity of a
\* coordinate draw).
EntrancePoint_IndependentFace(enter_face, phi, cos, r1, r2) ==
  IF enter_face < area_x
  THEN IF r1 % 2 = 0
       THEN [face |-> "front", p |-> <<Scale * x_max, Scale * r1, Scale * r2>>]
       ELSE [face |-> "back", p |-> <<Scale * x_min, Scale * r1, Scale * r2>>]
  ELSE IF enter_face < area_x + area_y
  THEN IF r1 % 2 = 0
       THEN [face |-> "right", p |-> <<Scale * r1, Scale * y_max, Scale * r2>>]
       ELSE [face |-> "left", p |-> <<Scale * r1, Scale * y_min, Scale * r2>>]
  ELSE IF enter_face <= area_tot
  THEN IF r1 % 2 = 0
       THEN [face |-> "top", p |-> <<Scale * r1, Scale * r2, Scale * z_max>>]
       ELSE [face |-> "bottom", p |-> <<Scale * r1, Scale * r2, Scale * z_min>>]
  ELSE [face |-> "none", p |-> <<x, y, z>>]

\* The face and the entrance point of one call, from its draws: enter_face,
\* phi, cos and the two rand.uniform coordinates r1, r2 (in draw order).  When
\* no branch is taken the position is left as it was.
EntrancePoint(enter_face, phi, cos, r1, r2) ==
  IF enter_face < area_x
  THEN IF phi > HalfPi /\ phi < ThreeHalfPi
       THEN [face |-> "front", p |-> <<Scale * x_max, Scale * r1, Scale * r2>>]
       ELSE [face |-> "back", p |-> <<Scale * x_min, Scale * r1, Scale * r2>>]
  ELSE IF enter_face < area_x + area_y
  THEN IF phi > Pi
       THEN [face |-> "right", p |-> <<Scale * r1, Scale * y_max, Scale * r2>>]
       ELSE [face |-> "left", p |-> <<Scale * r1, Scale * y_min, Scale * r2>>]
  ELSE IF enter_face <= area_tot
  THEN IF cos < 0
       THEN [face |-> "top", p |-> <<Scale * r1, Scale * r2, Scale * z_max>>]
       ELSE [face |-> "bottom", p |-> <<Scale * r1, Scale * r2, Scale * z_min>>]
  ELSE [face |-> "none", p |-> <<x, y, z>>]

\* The values the run's random source yields for one rand.uniform(a, b): the
\* grid values of G between a and b (all of them when G holds none).
Draws(a, b, G) ==
  IF Uniform(a, b) \cap G = {} THEN Uniform(a, b) ELSE Uniform(a, b) \cap G

\* The ranges of the two coordinate draws of the branch taken (no draw is made
\* when no branch is taken: 0 stands for it).
FirstRange(enter_face, G) ==
  IF enter_face < area_x THEN Draws(y_min, y_max, G)
  ELSE IF enter_face <= area_tot THEN Draws(x_min, x_max, G)
  ELSE {0}
SecondRange(enter_face, G) ==
  IF enter_face < area_x + area_y THEN Draws(z_min, z_max, G)
  ELSE IF enter_face <= area_tot THEN Draws(y_min, y_max, G)
  ELSE {0}

\* The unit vector of direction from cos and phi, in 25ths.
DirectionOf(cos, phi) ==
  <<SinOf(cos) * np_cos(phi), SinOf(cos) * np_sin(phi), 5 * cos>>

\* The effect of random_entrance on position and direction; CS, PH and G are
\* the values the run's random source yields for cos, phi and the coordinates.
Entrance(CS, PH, G) ==
  \E enter_face \in Uniform(0, area_tot), cos \in CS, phi \in PH :
    \E r1 \in FirstRange(enter_face, G), r2 \in SecondRange(enter_face, G) :
      LET e == EntrancePoint(enter_face, phi, cos, r1, r2)
          d == DirectionOf(cos, phi)
      IN /\ x' = e.p[1] /\ y' = e.p[2] /\ z' = e.p[3]
         /\ face' = e.face
         /\ ux' = d[1] /\ uy' = d[2] /\ uz' = d[3]

\* The driver calls it once on a Detector, before the walk (DMNC_main.py).
random_entrance(CS, PH, G) ==
  /\ pc = "idle"
  /\ last = "__init__"
  /\ Entrance(CS, PH, G)
  /\ last' = "random_entrance"
  /\ UNCHANGED <<config, capture_locs, photon_energy_list, pc, i, cascade,
                 finite, kv>>

\* particle_in_det without its last comparison.
particle_in_det_NoZMax ==
  /\ finite
  /\ x >= Scale * x_min
  /\ y >= Scale * y_min
  /\ z >= Scale * z_min
  /\ x <= Scale * x_max
  /\ y <= Scale * y_max

\* particle_in_det with the faces excluded.
particle_in_det_Exclusive ==
  /\ finite
  /\ x > Scale * x_min
  /\ y > Scale * y_min
  /\ z > Scale * z_min
  /\ x < Scale * x_max
  /\ y < Scale * y_max
  /\ z < Scale * z_max

\* ------------------------------------------------- Detector.particle_in_det
particle_in_det ==
  /\ finite
  /\ x >= Scale * x_min
  /\ y >= Scale * y_min
  /\ z >= Scale * z_min
  /\ x <= Scale * x_max
  /\ y <= Scale * y_max
  /\ z <= Scale * z_max


\* ---------------------------------------------------------- dictionaries
\* A dict is the sequence of its <<key, value>> items in iteration order.
Keys(dictionary) == {dictionary[k][1] : k \in DOMAIN dictionary}

\* dictionary[key] = value: a new key goes last, a known key keeps its place.
Put(dictionary, key, value) ==
  IF key \in Keys(dictionary)
  THEN [k \in DOMAIN dictionary |->
          IF dictionary[k][1] = key THEN <<key, value>> ELSE dictionary[k]]
  ELSE Append(dictionary, <<key, value>>)

\* total = 0; for key in dictionary.keys(): total += dictionary[key]
RECURSIVE SumUpTo(_, _)
SumUpTo(dictionary, k) ==
  IF k = 0 THEN 0 ELSE SumUpTo(dictionary, k - 1) + dictionary[k][2]
sum_dict_vals(dictionary) == SumUpTo(dictionary, Len(dictionary))

\* The scan's test with > instead of >=.
ScanStops_Strict(count, weight) == count > weight

\* The test that ends key_val_by_weight's scan at an item.
ScanStops(count, weight) == count >= weight

\* The scan of key_val_by_weight from item k on, count being the sum before
\* it: the first item at which the sum reaches weight is returned; when the
\* loop ends without one, 'ERROR' is printed and (curr_key, curr_val) as last
\* assigned is returned.
RECURSIVE Scan(_, _, _, _, _, _)
Scan(dictionary, weight, k, count, curr_key, curr_val) ==
  IF k > Len(dictionary)
  THEN [key |-> curr_key, val |-> curr_val, exhausted |-> TRUE]
  ELSE IF ScanStops(count + dictionary[k][2], weight)
  THEN [key |-> dictionary[k][1], val |-> dictionary[k][2], exhausted |-> FALSE]
  ELSE Scan(dictionary, weight, k + 1, count + dictionary[k][2],
            dictionary[k][1], dictionary[k][2])

\* key_val_by_weight(dictionary) with weight the value rand.uniform(0, total)
\* drew.
key_val_by_weight(dictionary, weight) ==
  Scan(dictionary, weight, 1, 0, DefaultKey, 0)

\* What a call leaves to be seen: its arguments, its draw and what it returned.
CallOf(by, dictionary, weight) ==
  LET r == key_val_by_weight(dictionary, weight)
  IN [called |-> TRUE, by |-> by, dictionary |-> dictionary, weight |-> weight,
      key |-> r.key, val |-> r.val, exhausted |-> r.exhausted]

\* ------------------------------------------------ Detector.gen_capture_locs
\* cap_dist = (-1 / (num_density * xsec_cm) * np.log(1 - rand_num)) * 1e-2 for
\* np.log(1 - rand_num) = -CmPerM * k; num_density * xsec_cm is 1 or -1 here.
cap_dist(k) ==
  ((((-1) \div (num_density * xsec_cm)) * (-(CmPerM * k))) \div CmPerM)

\* gen_capture_locs is called (once on a Detector, DMNC_main.py):
\* random_entrance runs first when the direction is still the zero vector, and
\* the loop starts.
gen_capture_locs(CS, PH, G) ==
  /\ pc = "idle"
  /\ last \in {"__init__", "random_entrance"}
  /\ IF ux = 0 /\ uy = 0 /\ uz = 0
     THEN Entrance(CS, PH, G)
     ELSE UNCHANGED <<position, direction, face>>
  /\ pc' = "walk"
  /\ i' = 0
  /\ last' = "gen_capture_locs"
  /\ UNCHANGED <<config, capture_locs, photon_energy_list, cascade, finite, kv>>

\* One iteration of the loop whose free path is finite.  rand.random() is in
\* [0, 1), so the rand_num == 1 exit is never taken.  The method returns on the
\* break and when the range is used up.
WalkStep(K) ==
  /\ pc = "walk"
  /\ i < WalkCap
  /\ num_density * xsec_cm # 0
  /\ \E k \in K :
       /\ x' = x + ux * cap_dist(k)
       /\ y' = y + uy * cap_dist(k)
       /\ z' = z + uz * cap_dist(k)
  /\ UNCHANGED <<config, direction, photon_energy_list, cascade, finite, face,
                 last>>
  /\ IF particle_in_det'
     THEN \E weight \in Uniform(0, sum_dict_vals(xsec_dict)) :
            /\ kv' = CallOf("gen_capture_locs", xsec_dict, weight)
            /\ capture_locs' = Put(capture_locs, <<x', y', z'>>, kv'.key)
            /\ i' = i + 1
            /\ pc' = IF i + 1 = WalkCap THEN "idle" ELSE "walk"
     ELSE /\ pc' = "idle"
          /\ UNCHANGED <<capture_locs, kv, i>>

\* One iteration with num_density * xsec_cm = 0: the division raises
\* ZeroDivisionError on Python numbers; on numpy scalars it yields inf, the
\* position becomes inf or nan, every comparison of particle_in_det fails and
\* the loop is left.
WalkDivZero ==
  /\ pc = "walk"
  /\ i < WalkCap
  /\ num_density * xsec_cm = 0
  /\ \E outcome \in {"raised", "idle"} :
       /\ pc' = outcome
       /\ finite' = (outcome = "raised")
  /\ UNCHANGED <<config, position, direction, capture_locs, photon_energy_list,
                 i, cascade, kv, face, last>>


\* ------------------------------------------- the rate calculator (DMNC_Rates)
\* EB(n, l) and q(n, l, new_n, new_l) are the calculator's energies; each is
\* held as the call that gave it.
EB(n, l) == <<"EB", n, l>>
q(n, l, new_n, new_l) == <<"q", n, l, new_n, new_l>>

\* Gamma_tot_B(n, l, m): the transitions of a state and their rates, by the
\* table the run was set up with.
Gamma_tot_B(n, l, m) ==
  CASE rates = "ladder" ->
         (CASE <<n, l, m>> = <<3, 0, 0>> ->
                 << <<<<2, 1, 1>>, 0>>, <<<<2, 1, 0>>, 1>>, <<<<1, 0, 0>>, 2>> >>
            [] <<n, l, m>> = <<2, 1, 0>> -> << <<<<1, 0, 0>>, 2>> >>
            [] <<n, l, m>> = <<2, 1, 1>> -> << <<<<1, 0, 0>>, 3>> >>
            [] OTHER -> <<>>)
    [] rates = "chain" -> << <<<<n - 1, 0, 0>>, 1>> >>
    [] rates = "zero" -> << <<<<n - 1, 0, 0>>, 0>> >>
    [] OTHER -> <<>>

\* q_state[0]: only a state can be subscripted (the int 0 raises TypeError).
Subscriptable(state) == Len(state) = 3

\* ----------------------------------------------- Detector.photon_generation
\* photon_generation is called: it returns at once when there is no capture,
\* else it starts on the locations.
photon_generation ==
  /\ pc = "idle"
  /\ calls < MaxCalls
  /\ calls' = calls + 1
  /\ last' = "photon_generation"
  /\ pel0' = photon_energy_list
  /\ loc' = 0
  /\ pc' = IF Len(capture_locs) = 0 THEN "idle" ELSE "location"
  /\ UNCHANGED <<config, position, direction, capture_locs, photon_energy_list,
                 i, q_state, diag, finite, kv, face>>

\* The binding energy recorded only for a state that will decay.
BindingPhoton_SkipGround(state) ==
  IF state[1] <= 1 THEN <<>> ELSE <<EB(state[1], state[2])>>

\* What the head of the loop body appends for a captured state.
BindingPhoton(state) == <<EB(state[1], state[2])>>

\* The next location of capture_locs.keys(), if any: its state is read, the
\* binding energy is appended and the cascade loop starts.  After the last
\* location the method returns.
NextLocation ==
  /\ pc = "location"
  /\ IF loc < Len(capture_locs)
     THEN LET state == capture_locs[loc + 1][2]
          IN /\ loc' = loc + 1
             /\ IF Subscriptable(state)
                THEN /\ q_state' = state
                     /\ photon_energy_list' =
                          photon_energy_list \o BindingPhoton(state)
                     /\ i' = 0
                     /\ diag' = FALSE
                     /\ pc' = "cascade"
                ELSE /\ pc' = "raised"
                     /\ UNCHANGED <<q_state, photon_energy_list, i, diag>>
     ELSE /\ pc' = "idle"
          /\ UNCHANGED <<loc, q_state, photon_energy_list, i, diag>>
  /\ UNCHANGED <<config, position, direction, capture_locs, finite, kv, face,
                 last, calls, pel0>>

\* The diagnostic's test at the end of an iteration of the cascade loop.
PrintsAttention(iter) == iter = CascadeCap - 1

\* One pass of the cascade loop: it is left when the range is used up or
\* n <= 1; else a transition is drawn from Gamma_tot_B, its energy is
\* appended and the quantum numbers are updated.
CascadeStep ==
  /\ pc = "cascade"
  /\ LET n == q_state[1]
         l == q_state[2]
         m == q_state[3]
         decay_dict == Gamma_tot_B(n, l, m)
     IN IF i >= CascadeCap \/ n <= 1
        THEN /\ pc' = "location"
             /\ UNCHANGED <<q_state, photon_energy_list, i, diag, kv>>
        ELSE \E weight \in Uniform(0, sum_dict_vals(decay_dict)) :
               /\ kv' = CallOf("photon_generation", decay_dict, weight)
               /\ IF Subscriptable(kv'.key)
                  THEN /\ photon_energy_list' =
                            Append(photon_energy_list,
                                   q(n, l, kv'.key[1], kv'.key[2]))
                       /\ q_state' = kv'.key
                       /\ diag' = (diag \/ PrintsAttention(i))
                       /\ i' = i + 1
                       /\ pc' = "cascade"
                  ELSE /\ pc' = "raised"
                       /\ UNCHANGED <<q_state, photon_energy_list, i, diag>>
  /\ UNCHANGED <<config, position, direction, capture_locs, loc, finite, face,
                 last, calls, pel0>>


\* ------------------------------------------------------------ the inputs
\* Sides: negative, zero and the valid even ones.
ValidDims == {2 * h : h \in 1..MaxHalf}
DimsAll == {-2, 0} \cup ValidDims
\* The grid of the coordinate draws.
GridAll == (-MaxHalf)..MaxHalf
\* Free-path draws, with and without the zero path (rand_num = 0).
PathsAll == 0..MaxDist
PathsPositive == 1..MaxDist

\* Capture weights and rate tables a run is set up with.
PlainSetup ==
  [xsec_dict |-> << <<<<3, 0, 0>>, 1>>, <<<<2, 1, 0>>, 0>>, <<<<1, 0, 0>>, 2>> >>,
   rates |-> "ladder"]
\* The single-state mapping of the end-to-end scenario.
SingleSetup == [xsec_dict |-> << <<<<2, 0, 0>>, 1>> >>, rates |-> "ladder"]
Setups ==
  { PlainSetup,
    [xsec_dict |-> << <<<<2, 1, 0>>, 1>> >>, rates |-> "empty"],
    [xsec_dict |-> << <<<<2, 1, 0>>, 1>> >>, rates |-> "zero"],
    [xsec_dict |-> <<>>, rates |-> "ladder"] }
\* Captures high enough for a cascade to use up its range.
LongSetups ==
  { [xsec_dict |-> << <<<<CascadeCap + 1, 0, 0>>, 1>>,
                      <<<<CascadeCap + 2, 0, 0>>, 1>> >>,
     rates |-> "chain"] }

\* -------------------------------------------------------- specifications
\* The entrance sampler on every geometry, with every draw.
NextEntrance ==
  \/ Construct(DimsAll, {1}, {1}, {PlainSetup})
  \/ random_entrance(CosAll, PhiAll, GridAll)
SpecEntrance == Init /\ [][NextEntrance]_vars

\* The capture walk, zero paths included, so that the range can be used up.
NextWalk ==
  \/ Construct({0, 2 * MaxHalf}, {1}, {1}, {SingleSetup})
  \/ random_entrance({-3, 0, 5}, {1, 3, 4, 8}, {0, MaxHalf})
  \/ gen_capture_locs({-3, 0, 5}, {1, 3, 4, 8}, {0, MaxHalf})
  \/ WalkStep(PathsAll)
SpecWalk == Init /\ [][NextWalk]_vars

\* The whole engine on a valid detector, with short walks, over the capture
\* weights and rate tables.
Next ==
  \/ Construct({2}, {1}, {1}, Setups)
  \/ random_entrance({0}, {2, 7}, {0})
  \/ gen_capture_locs({0}, {2, 7}, {0})
  \/ WalkStep(PathsPositive)
  \/ photon_generation
  \/ NextLocation
  \/ CascadeStep
Spec == Init /\ [][Next]_vars

\* Every configuration the constructor is given, up to the walk.
NextConfig ==
  \/ Construct(DimsAll, {-1, 0, 1}, {0, 1}, {SingleSetup})
  \/ random_entrance({-3, 0}, {2, 7}, {0})
  \/ gen_capture_locs({-3, 0}, {2, 7}, {0})
  \/ WalkStep(PathsPositive)
  \/ WalkDivZero
SpecConfig == Init /\ [][NextConfig]_vars

\* The decay cascade on captures that use up its range.
NextCascade ==
  \/ Construct({2}, {1}, {1}, LongSetups)
  \/ random_entrance({0}, {7}, {0})
  \/ gen_capture_locs({0}, {7}, {0})
  \/ WalkStep({1})
  \/ photon_generation
  \/ NextLocation
  \/ CascadeStep
SpecCascade == Init /\ [][NextCascade]_vars


\* ------------------------------------------------------------ the claims
\* The inclusive containment test of a position p (in 25ths).
Inside(p) ==
  /\ Scale * x_min <= p[1] /\ p[1] <= Scale * x_max
  /\ Scale * y_min <= p[2] /\ p[2] <= Scale * y_max
  /\ Scale * z_min <= p[3] /\ p[3] <= Scale * z_max
ValidGeometry == length > 0 /\ width > 0 /\ height > 0
WalkReturned == pc = "idle" /\ last = "gen_capture_locs"

\* C1: every key of capture_locs satisfies the inclusive containment test, a
\* position is inside when it is recorded, and the step of the walk whose
\* advanced position fails the test ends the walk with nothing recorded, then
\* or later.
C1_RecordedInsideStopAtExit ==
  /\ [](\A k \in DOMAIN capture_locs : Inside(capture_locs[k][1]))
  /\ [][/\ capture_locs' # capture_locs =>
             /\ Inside(<<x', y', z'>>)
             /\ <<x', y', z'>> \in Keys(capture_locs')
        /\ (pc = "walk" /\ ~Inside(<<x', y', z'>>)) =>
             (pc' # "walk" /\ capture_locs' = capture_locs)
        /\ pc # "walk" => capture_locs' = capture_locs]_vars
\* A walk that recorded captures and then left the detector.
C1_Witness ==
  /\ WalkReturned
  /\ Len(capture_locs) >= 2
  /\ ~Inside(<<x, y, z>>)

\* C2 as stated: whenever gen_capture_locs returns, the position is outside.
C2_ReturnsOutside == WalkReturned => ~Inside(<<x, y, z>>)
\* C2 amended: gen_capture_locs returns with the position outside exactly when
\* it returns before its range of 100 iterations is used up; a walk of 100
\* recorded steps returns with the particle still inside.
C2_ReturnsOutsideUnlessCapped ==
  WalkReturned => (Inside(<<x, y, z>>) <=> i = WalkCap)
\* A walk that used up its range inside the detector.
C2_Witness ==
  /\ WalkReturned
  /\ i = WalkCap
  /\ Inside(<<x, y, z>>)
  /\ capture_locs # <<>>

\* The position is on one of the six bounding faces.
OnFace ==
  /\ Inside(<<x, y, z>>)
  /\ \/ x = Scale * x_min \/ x = Scale * x_max
     \/ y = Scale * y_min \/ y = Scale * y_max
     \/ z = Scale * z_min \/ z = Scale * z_max

\* C3: after random_entrance on a valid geometry the position is on one of
\* the six faces, so the containment test holds.
C3_EntranceOnFace ==
  (last = "random_entrance" /\ ValidGeometry) => (OnFace /\ particle_in_det)
\* An entrance through the top face of a valid detector, away from its edges.
C3_Witness ==
  /\ last = "random_entrance" /\ ValidGeometry
  /\ face = "top" /\ z = Scale * z_max /\ x = 0 /\ y = 0

Cumulative(dictionary, k) == SumUpTo(dictionary, k)
\* A mapping the weighted choice is specified on: not empty, no negative
\* weight, a positive one.
ValidMapping(dictionary) ==
  /\ dictionary # <<>>
  /\ \A k \in DOMAIN dictionary : dictionary[k][2] >= 0
  /\ \E k \in DOMAIN dictionary : dictionary[k][2] > 0

\* C4: on a valid mapping and a draw in [0, total], key_val_by_weight returns
\* the first item in iteration order whose cumulative weight reaches the
\* draw, with its weight; the key is a key of the mapping (the only one of a
\* single-key mapping), and every state gen_capture_locs recorded is a key of
\* xsec_dict.
C4_FirstKeyReachingDraw ==
  /\ (kv.called /\ ValidMapping(kv.dictionary)) =>
       /\ kv.weight \in 0..Cumulative(kv.dictionary, Len(kv.dictionary))
       /\ ~kv.exhausted
       /\ \E k \in DOMAIN kv.dictionary :
            /\ <<kv.key, kv.val>> = kv.dictionary[k]
            /\ Cumulative(kv.dictionary, k) >= kv.weight
            /\ \A j \in 1..(k - 1) : Cumulative(kv.dictionary, j) < kv.weight
       /\ kv.key \in Keys(kv.dictionary)
       /\ Len(kv.dictionary) = 1 => kv.key = kv.dictionary[1][1]
  /\ ValidMapping(xsec_dict) =>
       \A k \in DOMAIN capture_locs : capture_locs[k][2] \in Keys(xsec_dict)
\* A draw that passed a zero-weight item and returned the third key, and a
\* capture recorded with a state of xsec_dict.
C4_Witness ==
  /\ kv.called /\ ValidMapping(kv.dictionary)
  /\ Len(kv.dictionary) = 3
  /\ kv.key = kv.dictionary[3][1]
  /\ kv.dictionary[2][2] = 0
  /\ capture_locs # <<>>

\* C5: a scan of key_val_by_weight that ends without a match is surfaced as a
\* failure: the run does not go on with a returned default pair.
C5_ExhaustedScanIsSurfaced == (kv.called /\ kv.exhausted) => pc = "raised"

\* C6: photon_generation never draws over an empty or zero-total transition
\* mapping, and never goes on to subscript a result that is not a state.
C6_EmptyRatesDetectedBeforeDraw ==
  (kv.called /\ kv.by = "photon_generation") =>
    /\ sum_dict_vals(kv.dictionary) > 0
    /\ Subscriptable(kv.key)

\* C7: a Detector with a zero or negative length, width, height, number
\* density or cross section never runs one of its methods.
C7_BadConfigurationRejected ==
  last \in {"random_entrance", "gen_capture_locs", "photon_generation"} =>
    /\ length > 0 /\ width > 0 /\ height > 0
    /\ num_density > 0 /\ xsec_cm > 0

\* C8: a cascade stops after at most 1000 transitions, and when it has
\* stopped the diagnostic was printed for it exactly if it stopped with n > 1.
C8_DiagnosticIffTruncated ==
  (pc = "location" /\ loc >= 1) =>
    /\ i <= CascadeCap
    /\ diag <=> q_state[1] > 1

\* The part of photon_energy_list the running or last call appended.
Appended ==
  SubSeq(photon_energy_list, Len(pel0) + 1, Len(photon_energy_list))
IsEB(e) == e[1] = "EB"
\* The places of Appended where a block starts, and the j-th of them.
BlockStarts == {k \in DOMAIN Appended : IsEB(Appended[k])}
BlockStart(j) ==
  CHOOSE s \in BlockStarts : Cardinality({t \in BlockStarts : t < s}) = j - 1
\* The last place of the block that starts at s.
BlockEnd(s) ==
  IF \E t \in BlockStarts : t > s
  THEN (CHOOSE t \in BlockStarts :
          t > s /\ \A r \in BlockStarts : r > s => t <= r) - 1
  ELSE Len(Appended)
\* The state <<n, l>> a cascade is in after the entry e.
StateAfter(e) == IF IsEB(e) THEN <<e[2], e[3]>> ELSE <<e[4], e[5]>>

\* C9: a call of photon_generation leaves the list it was called with in
\* place and appends one block per capture event, in capture_locs order: the
\* binding energy EB(n, l) of the event's state (also when n <= 1), then one
\* q(old n, old l, new n, new l) per transition, each starting from the state
\* the entry before it left; when the call returns there are as many blocks
\* as events and each ran down to n <= 1 or the cap.  While the call runs the
\* list only grows at its end and capture_locs, position and direction stay.
C9_BlocksInCaptureOrder ==
  /\ [](last = "photon_generation" =>
          /\ SubSeq(photon_energy_list, 1, Len(pel0)) = pel0
          /\ Cardinality(BlockStarts) <= Len(capture_locs)
          /\ Appended # <<>> => IsEB(Appended[1])
          /\ \A j \in 1..Cardinality(BlockStarts) :
               LET s == BlockStart(j)
                   state == capture_locs[j][2]
               IN /\ Appended[s] = EB(state[1], state[2])
                  /\ \A k \in (s + 1)..BlockEnd(s) :
                       /\ Len(Appended[k]) = 5
                       /\ <<Appended[k][2], Appended[k][3]>> =
                            StateAfter(Appended[k - 1])
                  /\ pc = "idle" =>
                       \/ StateAfter(Appended[BlockEnd(s)])[1] <= 1
                       \/ BlockEnd(s) - s = CascadeCap
          /\ pc = "idle" => Cardinality(BlockStarts) = Len(capture_locs))
  /\ [][last' = "photon_generation" =>
          /\ Len(photon_energy_list') >= Len(photon_energy_list)
          /\ SubSeq(photon_energy_list', 1, Len(photon_energy_list)) =
               photon_energy_list
          /\ capture_locs' = capture_locs
          /\ <<x', y', z'>> = <<x, y, z>>
          /\ <<ux', uy', uz'>> = <<ux, uy, uz>>]_vars
\* A second call returned on a Detector with a ground-state capture and a
\* capture that cascaded.
C9_Witness ==
  /\ pc = "idle" /\ last = "photon_generation"
  /\ calls = 2
  /\ pel0 # <<>>
  /\ \E j \in DOMAIN capture_locs : capture_locs[j][2][1] = 1
  /\ \E j \in DOMAIN capture_locs : capture_locs[j][2][1] = 3
  /\ \E k \in DOMAIN Appended : ~IsEB(Appended[k])

====
